---- MODULE Spec2Model ----
(***************************************************************************)
(* A model of adif_merge (src/adif_merge/__init__.py): the per-record      *)
(* normaliser fixup_qso, the batch reader read_adif_files, the field       *)
(* resolver merge_dupe_fields / merge_two_qsos and the bucket walk of      *)
(* merge_qsos.                                                             *)
(*                                                                         *)
(* Python values are modelled as tagged records: a str is Str(s) with s a  *)
(* TLA+ string, a number (int or float, which Python compares by value) is *)
(* Num(n) with n the value in units of 1/Scale, and the float nan is NaN.  *)
(* A QSO dict is a record [f |-> the dict's scalar entries (field name ->  *)
(* value, "_SOURCE_FILE" included), u |-> the "_UNMERGED" entry (source    *)
(* identifier -> leftover fields; the empty function when the key is       *)
(* absent)].                                                               *)
(***************************************************************************)
EXTENDS Integers, Sequences, FiniteSets, TLC

VARIABLES
    raw,        \* the parsed input: a sequence of [path, q] (file name, raw record)
    window,     \* args.merge_window
    pc,         \* "read", "walk", "done" or "aborted"
    i,          \* read_adif_files: index of the next raw record
    qsos,       \* read_adif_files: the normalised records, in input order
    malformed,  \* read_adif_files: the rejected records
    failure,    \* the exception that ended the run ("" when none)
    sorted_in,  \* merge_qsos: sorted(qsos, key=time_on), as handed to the walk
    buckets,    \* merge_qsos: sequence of buckets (dict insertion order)
    b,          \* walk: index of the current bucket
    j,          \* walk: index of the next entry of the current bucket
    first,      \* walk: index (in the bucket) of the current primary
    cutoff,     \* walk: the cutoff, in seconds
    absorbed,   \* history: the [b, k, into] of every merge_two_qsos call of the walk
    out         \* merge_qsos' return value

vars == <<raw, window, pc, i, qsos, malformed, failure, sorted_in, buckets,
          b, j, first, cutoff, absorbed, out>>

(***************************************************************************)
(* Strings.  Python's 0-based slices become 1-based SubSeq.                 *)
(***************************************************************************)
Min(x, y) == IF x < y THEN x ELSE y

\* s[k-1:k]: the k-th character, "" past the end
Ch(s, k) == IF k >= 1 /\ k <= Len(s) THEN SubSeq(s, k, k) ELSE ""
\* s[a:b] for 0 <= a <= b (Python clips at the end of the string)
Slice(s, a, bb) == IF a >= Len(s) THEN "" ELSE SubSeq(s, a + 1, Min(bb, Len(s)))
\* s[a:]
SliceFrom(s, a) == Slice(s, a, Len(s))

LowerAlpha == "abcdefghijklmnopqrstuvwxyz"
UpperAlpha == "ABCDEFGHIJKLMNOPQRSTUVWXYZ"
Digits == "0123456789"
Whitespace == {" ", "\t", "\n", "\r", "\f"}

IsIn(c, alphabet) == \E k \in 1..Len(alphabet) : Ch(alphabet, k) = c
IndexIn(c, alphabet) == CHOOSE k \in 1..Len(alphabet) : Ch(alphabet, k) = c
IsDigit(c) == IsIn(c, Digits)
UpperCh(c) == IF IsIn(c, LowerAlpha) THEN Ch(UpperAlpha, IndexIn(c, LowerAlpha)) ELSE c
LowerCh(c) == IF IsIn(c, UpperAlpha) THEN Ch(LowerAlpha, IndexIn(c, UpperAlpha)) ELSE c

RECURSIVE MapUpper(_)
MapUpper(s) == IF s = "" THEN "" ELSE UpperCh(Ch(s, 1)) \o MapUpper(Tail(s))
RECURSIVE MapLower(_)
MapLower(s) == IF s = "" THEN "" ELSE LowerCh(Ch(s, 1)) \o MapLower(Tail(s))

\* str.isupper(): some cased character, and no lower-case one
IsUpper(s) ==
    /\ \E k \in 1..Len(s) : IsIn(Ch(s, k), UpperAlpha)
    /\ \A k \in 1..Len(s) : ~IsIn(Ch(s, k), LowerAlpha)

\* str.strip()
RECURSIVE LStrip(_)
LStrip(s) == IF s # "" /\ Ch(s, 1) \in Whitespace THEN LStrip(Tail(s)) ELSE s
RECURSIVE RStrip(_)
RStrip(s) ==
    IF s # "" /\ Ch(s, Len(s)) \in Whitespace
    THEN RStrip(SubSeq(s, 1, Len(s) - 1)) ELSE s
Strip(s) == RStrip(LStrip(s))

\* str.replace(a, c) for a single character a
RECURSIVE ReplaceCh(_, _, _)
ReplaceCh(s, a, c) ==
    IF s = "" THEN ""
    ELSE (IF Ch(s, 1) = a THEN c ELSE Ch(s, 1)) \o ReplaceCh(Tail(s), a, c)

\* str.translate(_WSTRANS): every whitespace character removed
RECURSIVE RemoveWhitespace(_)
RemoveWhitespace(s) ==
    IF s = "" THEN ""
    ELSE (IF Ch(s, 1) \in Whitespace THEN "" ELSE Ch(s, 1)) \o RemoveWhitespace(Tail(s))

StartsWith(s, p) == Len(p) <= Len(s) /\ SubSeq(s, 1, Len(p)) = p
\* a in s  (substring test)
Contains(s, a) ==
    \E k \in 0..(Len(s) - Len(a)) : SubSeq(s, k + 1, k + Len(a)) = a

comparable_string(val) == RemoveWhitespace(MapLower(val))

(***************************************************************************)
(* Values.                                                                 *)
(***************************************************************************)
Scale == 10000

Str(s) == [k |-> "str", s |-> s, n |-> 0]
Num(n) == [k |-> "num", s |-> "", n |-> n]
NaN == [k |-> "nan", s |-> "", n |-> 0]

IsStr(v) == v.k = "str"
\* Python ==: nan equals nothing, a str never equals a number
PyEq(v, w) == v.k = w.k /\ v.k # "nan" /\ v.s = w.s /\ v.n = w.n
\* Python truthiness: "" and 0 are false, nan is true
Truthy(v) == (v.k = "str" /\ v.s # "") \/ (v.k = "num" /\ v.n # 0) \/ v.k = "nan"

RECURSIVE Nat10(_)
Nat10(s) == IF s = "" THEN 0
            ELSE Nat10(SubSeq(s, 1, Len(s) - 1)) * 10 + (IndexIn(Ch(s, Len(s)), Digits) - 1)
AllDigits(s) == \A k \in 1..Len(s) : IsDigit(Ch(s, k))
\* the fraction digits, as units of 1/Scale (four places)
FracUnits(s) == Nat10(SubSeq(s \o "0000", 1, 4))

\* float(s) for a decimal literal [+-]digits[.digits] or "nan"; anything else
\* raises ValueError (ok = FALSE).  float() strips whitespace itself.
UnsignedFloat(t) ==
    LET dots == {k \in 1..Len(t) : Ch(t, k) = "."}
    IN  IF dots = {}
        THEN [ok |-> t # "" /\ AllDigits(t), n |-> IF t # "" /\ AllDigits(t) THEN Nat10(t) * Scale ELSE 0]
        ELSE LET d == CHOOSE k \in dots : TRUE
                 ip == SubSeq(t, 1, d - 1)
                 fp == SubSeq(t, d + 1, Len(t))
                 good == Cardinality(dots) = 1 /\ AllDigits(ip) /\ AllDigits(fp)
                         /\ (ip # "" \/ fp # "")
             IN  [ok |-> good, n |-> IF good THEN Nat10(ip) * Scale + FracUnits(fp) ELSE 0]

ParseFloat(s0) ==
    LET s == Strip(s0)
        neg == s # "" /\ Ch(s, 1) = "-"
        t == IF s # "" /\ Ch(s, 1) \in {"+", "-"} THEN Tail(s) ELSE s
        u == UnsignedFloat(t)
    IN  IF MapLower(t) = "nan" THEN [ok |-> TRUE, v |-> NaN]
        ELSE [ok |-> u.ok, v |-> Num(IF neg THEN 0 - u.n ELSE u.n)]

\* float(v) for any value: a number is returned as it is
ToFloat(v) == IF IsStr(v) THEN ParseFloat(v.s) ELSE [ok |-> TRUE, v |-> v]

\* int(x): truncation toward zero
Trunc(n) == IF n >= 0 THEN (n \div Scale) * Scale ELSE 0 - (((0 - n) \div Scale) * Scale)
\* round(x, 3): to the nearest 1/1000, ties to even
Round3(n) ==
    LET a == IF n >= 0 THEN n ELSE 0 - n
        q == a \div 10
        r == a % 10
        up == r > 5 \/ (r = 5 /\ q % 2 = 1)
        m == (IF up THEN q + 1 ELSE q) * 10
    IN  IF n >= 0 THEN m ELSE 0 - m

(***************************************************************************)
(* Dicts: a function from the keys present to their values.                *)
(***************************************************************************)
Has(q, fld) == fld \in DOMAIN q
Del(q, flds) == [x \in DOMAIN q \ flds |-> q[x]]
Put(q, fld, v) == [x \in DOMAIN q \cup {fld} |-> IF x = fld THEN v ELSE q[x]]
SeqToSet(s) == {s[k] : k \in 1..Len(s)}

(***************************************************************************)
(* Field tables (lines 73-116).                                            *)
(***************************************************************************)
FIELD_MANDATORY == <<"QSO_DATE", "TIME_ON", "CALL", "BAND", "MODE">>
FIELD_INTEGERS == <<"K_INDEX", "NR_BURSTS", "NR_PINGS", "SFI", "SRX", "STX", "DXCC">>
FIELD_INTEGERS_POS == <<"CQZ", "FISTS", "FISTS_CC", "ITUZ", "MY_CQ_ZONE", "MY_FISTS",
                        "MY_ITU_ZONE", "TEN_TEN", "UKMSG">>
FIELD_NUMBERS == <<"AGE", "A_INDEX", "ANT_AZ", "ANT_EL", "DISTANCE", "FREQ", "FREQ_RX",
                   "MAX_BURSTS", "RX_PWR", "TX_PWR">>
FIELD_ZONES == <<"MY_CQ_ZONE", "CQZ", "MY_ITU_ZONE", "ITUZ">>

\* FIELD_MODES_REVERSE.get(mode): the real mode of a sub-mode, "" for None.
\* (QRA64's list is the single string "QRA64A, QRA64B, QRA64C, QRA64D, QRA64E".)
FIELD_MODES_REVERSE(mode) ==
    CASE mode \in {"DOMINOEX", "DOMINOF"} -> "DOMINO"
      [] mode \in {"JT4A", "JT4B", "JT4C", "JT4D", "JT4E", "JT4F", "JT4G"} -> "JT4"
      [] mode \in {"JT65A", "JT65B", "JT65B2", "JT65C", "JT65C2"} -> "JT65"
      [] mode \in {"JT9-1", "JT9-2", "JT9-5", "JT9-10", "JT9-30", "JT9A", "JT9B", "JT9C",
                   "JT9D", "JT9E", "JT9E FAST", "JT9F", "JT9F FAST", "JT9G", "JT9G FAST",
                   "JT9H", "JT9H FAST"} -> "JT9"
      [] mode \in {"FSQCALL", "FT4", "JS8", "MFSK4", "MFSK8", "MFSK11", "MFSK16", "MFSK22",
                   "MFSK31", "MFSK32", "MFSK64", "MFSK128"} -> "MFSK"
      [] mode \in {"OLIVIA 4/125", "OLIVIA 4/250", "OLIVIA 8/250", "OLIVIA 8/500",
                   "OLIVIA 16/500", "OLIVIA 16/1000", "OLIVIA 32/1000"} -> "OLIVIA"
      [] mode \in {"FSK31", "PSK10", "PSK31", "PSK63", "PSK63F", "PSK125", "PSK250",
                   "PSK500", "PSK1000", "PSKAM10", "PSKAM31", "PSKAM50", "PSKFEC31",
                   "QPSK31", "QPSK63", "QPSK125", "QPSK250", "QPSK500", "SIM31"} -> "PSK"
      [] mode = "QRA64A, QRA64B, QRA64C, QRA64D, QRA64E" -> "QRA64"
      [] mode = "ASCI" -> "RTTY"
      [] mode \in {"USB", "LSB"} -> "SSB"
      [] OTHER -> ""

(***************************************************************************)
(* fixup_qso (lines 142-221).  Every step returns [err, q]: err is "" or    *)
(* the name of the exception raised, q the dict so far.                    *)
(***************************************************************************)
Ok(q) == [err |-> "", q |-> q, missing |-> {}]
Raise(e, q) == [err |-> e, q |-> q, missing |-> {}]

\* lines 130-139; qso['MODE'] raises KeyError when MODE is not a key
fixup_qso_mode(q) ==
    IF ~Has(q, "MODE") THEN Raise("KeyError", q)
    ELSE LET mode == q["MODE"]
             real_mode == IF IsStr(mode) THEN FIELD_MODES_REVERSE(mode.s) ELSE ""
         IN  IF real_mode # ""
             THEN Ok(Put(Put(q, "MODE", Str(real_mode)), "SUBMODE", mode))
             ELSE Ok(q)

\* lines 156-159
StripValues(q) == [x \in DOMAIN q |-> IF IsStr(q[x]) THEN Str(Strip(q[x].s)) ELSE q[x]]
DropFalsy(q) == Del(q, {x \in DOMAIN q : ~Truthy(q[x])})

\* re.search(r'([\d\.]+)[Ww]', s): the leftmost run of digits and dots that a
\* W or w follows; group(1) is the run.
PwrChars == {Ch(Digits, k) : k \in 1..Len(Digits)} \cup {"."}
SkipSet(s, p, S) ==
    CHOOSE e \in p..(Len(s) + 1) :
        /\ \A k \in p..(e - 1) : Ch(s, k) \in S
        /\ e = Len(s) + 1 \/ Ch(s, e) \notin S
PowerSearch(s) ==
    LET starts == {a \in 1..Len(s) :
                     /\ Ch(s, a) \in PwrChars
                     /\ SkipSet(s, a, PwrChars) <= Len(s)
                     /\ Ch(s, SkipSet(s, a, PwrChars)) \in {"W", "w"}}
    IN  IF starts = {} THEN [match |-> FALSE, g1 |-> ""]
        ELSE LET a == CHOOSE x \in starts : \A y \in starts : x <= y
             IN  [match |-> TRUE, g1 |-> SubSeq(s, a, SkipSet(s, a, PwrChars) - 1)]

PWR_LIMIT == 10000
\* qso[field] //= 10000 (floor division; the value is above PWR_LIMIT here)
ScaleDown(n) == (n \div (PWR_LIMIT * Scale)) * Scale

\* lines 162-172 for one field: [err, del, v]
Kept(v) == [err |-> "", del |-> FALSE, v |-> v]
Failed(e, v) == [err |-> e, del |-> FALSE, v |-> v]
\* lines 170-172: float(), then the scale-down
PowerValue(f, v) ==
    IF ~f.ok THEN Failed("ValueError", v)
    ELSE IF f.v.k = "num" /\ f.v.n > PWR_LIMIT * Scale THEN Kept(Num(ScaleDown(f.v.n)))
    ELSE Kept(f.v)
PowerMatched(m, v) == PowerValue(ParseFloat(IF m.match THEN m.g1 ELSE v.s), v)
\* lines 162-172 for one field: [err, del, v]
PowerField(v) ==
    IF PyEq(v, Str("NaN")) THEN [err |-> "", del |-> TRUE, v |-> v]
    ELSE IF ~IsStr(v) THEN Failed("TypeError", v)
    ELSE PowerMatched(PowerSearch(v.s), v)

\* lines 176-178 for one field: int(float(v)); int(nan) raises ValueError
IntegerValue(f, v) ==
    IF ~f.ok \/ f.v.k = "nan" THEN Failed("ValueError", v) ELSE Kept(Num(Trunc(f.v.n)))
IntegerField(v) == IntegerValue(ToFloat(v), v)

\* lines 180-190 for one field: the int/float distinction is one of type only
NumberValue(fld, f, v) ==
    IF ~f.ok THEN Failed("ValueError", v)
    ELSE IF fld = "FREQ" /\ f.v.k = "num" THEN Kept(Num(Round3(f.v.n)))
    ELSE Kept(f.v)
NumberField(fld, v) == NumberValue(fld, ToFloat(v), v)

\* A "for field in <list>: if field in qso: ..." loop whose body touches only
\* qso[field]: r[fld] is the body's result for the fields present.  The first
\* field of the list that raises ends the loop.
ApplyLoop(q, list, r) ==
    LET here == {k \in 1..Len(list) : Has(q, list[k])}
        bad == {k \in here : r[list[k]].err # ""}
    IN  IF bad # {}
        THEN Raise(r[list[CHOOSE k \in bad : \A m \in bad : k <= m]].err, q)
        ELSE Ok([x \in DOMAIN q \ {list[k] : k \in {m \in here : r[list[m]].del}} |->
                    IF x \in {list[k] : k \in here} THEN r[x].v ELSE q[x]])

FixPower(q) ==
    ApplyLoop(q, <<"TX_PWR", "RX_PWR">>,
              [x \in DOMAIN q \cap {"TX_PWR", "RX_PWR"} |-> PowerField(q[x])])
FixIntegers(q) ==
    ApplyLoop(q, FIELD_INTEGERS \o FIELD_INTEGERS_POS,
              [x \in DOMAIN q \cap SeqToSet(FIELD_INTEGERS \o FIELD_INTEGERS_POS) |->
                  IntegerField(q[x])])
FixNumbers(q) ==
    ApplyLoop(q, FIELD_NUMBERS,
              [x \in DOMAIN q \cap SeqToSet(FIELD_NUMBERS) |-> NumberField(x, q[x])])

\* str methods on a value that is not a str raise AttributeError (TypeError
\* for a slice)
StrField(v, s, e) ==
    IF IsStr(v) THEN [err |-> "", del |-> FALSE, v |-> Str(s)]
    ELSE [err |-> e, del |-> FALSE, v |-> v]
\* lines 192-194
FixBand(q) ==
    ApplyLoop(q, <<"BAND", "BAND_RX">>,
              [x \in DOMAIN q \cap {"BAND", "BAND_RX"} |->
                  StrField(q[x], MapUpper(q[x].s), "AttributeError")])
\* lines 196-198
FixCall(q) ==
    ApplyLoop(q, <<"CALL", "MYCALL">>,
              [x \in DOMAIN q \cap {"CALL", "MYCALL"} |->
                  StrField(q[x], MapUpper(ReplaceCh(q[x].s, "_", "/")), "AttributeError")])
\* lines 200-203
GridCase(s) == MapUpper(Slice(s, 0, 4)) \o MapLower(SliceFrom(s, 4))
FixGrid(q) ==
    ApplyLoop(q, <<"GRIDSQUARE", "MY_GRIDSQUARE">>,
              [x \in DOMAIN q \cap {"GRIDSQUARE", "MY_GRIDSQUARE"} |->
                  StrField(q[x], GridCase(q[x].s), "TypeError")])
\* lines 205-207
FixLatLon(q) ==
    ApplyLoop(q, <<"LAT", "LON">>,
              [x \in DOMAIN q \cap {"LAT", "LON"} |->
                  IF IsStr(q[x])
                  THEN [err |-> "", del |-> SliceFrom(q[x].s, 1) = "000 00.000", v |-> q[x]]
                  ELSE [err |-> "TypeError", del |-> FALSE, v |-> q[x]]])
\* lines 209-211
ZeroFields == <<"A_INDEX", "K_INDEX", "SFI", "DISTANCE", "TX_PWR", "RX_PWR">> \o FIELD_ZONES
DropZero(q) == Del(q, {x \in DOMAIN q \cap SeqToSet(ZeroFields) : ~Truthy(q[x])})

\* re.search(r'Sent:?\s*([+-]?\d+)\s+Rcvd:?\s*([+-]?\d+)', s, re.IGNORECASE):
\* every quantifier of the pattern is followed by something its own class
\* excludes, so the greedy match from a given start is the only one.
DigitChars == {Ch(Digits, k) : k \in 1..Len(Digits)}
NoMatch == [match |-> FALSE, g1 |-> "", g2 |-> ""]
\* the position after an optional character c at p
AfterOpt(s, p, c) == IF Ch(s, p) = c THEN p + 1 ELSE p
\* the position after an optional sign at p
AfterSign(s, p) == IF Ch(s, p) \in {"+", "-"} THEN p + 1 ELSE p
\* ([+-]?\d+) from p9 to p11, the end of the match
MatchG2End(s, p3, p5, p9, p10, p11) ==
    IF p11 > p10
    THEN [match |-> TRUE, g1 |-> SubSeq(s, p3, p5 - 1), g2 |-> SubSeq(s, p9, p11 - 1)]
    ELSE NoMatch
MatchG2(s, low, p3, p5, p9) ==
    MatchG2End(s, p3, p5, p9, AfterSign(low, p9), SkipSet(low, AfterSign(low, p9), DigitChars))
\* \s+Rcvd:?\s* from p5
MatchGap(s, low, p3, p5, p6) ==
    IF p6 > p5 /\ Slice(low, p6 - 1, p6 + 3) = "rcvd"
    THEN MatchG2(s, low, p3, p5, SkipSet(low, AfterOpt(low, p6 + 4, ":"), Whitespace))
    ELSE NoMatch
\* ([+-]?\d+) from p3
MatchG1End(s, low, p3, p4, p5) ==
    IF p5 > p4 THEN MatchGap(s, low, p3, p5, SkipSet(low, p5, Whitespace)) ELSE NoMatch
MatchG1(s, low, p3) ==
    MatchG1End(s, low, p3, AfterSign(low, p3), SkipSet(low, AfterSign(low, p3), DigitChars))
\* Sent:?\s* at a
MatchSent(s, low, a) ==
    IF Slice(low, a - 1, a + 3) = "sent"
    THEN MatchG1(s, low, SkipSet(low, AfterOpt(low, a + 4, ":"), Whitespace))
    ELSE NoMatch
SentRcvdAt(s, a) == MatchSent(s, MapLower(s), a)
\* the leftmost match
RECURSIVE SentRcvdFrom(_, _)
OrSearchOn(m, s, a) == IF m.match THEN m ELSE SentRcvdFrom(s, a + 1)
SentRcvdFrom(s, a) == IF a > Len(s) THEN NoMatch ELSE OrSearchOn(SentRcvdAt(s, a), s, a)
SentRcvdSearch(s) == SentRcvdFrom(s, 1)

\* line 217
SameReports(m, q) ==
    m.match /\ PyEq(Str(m.g1), q["RST_SENT"]) /\ PyEq(Str(m.g2), q["RST_RCVD"])
\* lines 213-218
RedundantComment(q, fld) ==
    /\ Has(q, fld) /\ Has(q, "RST_SENT") /\ Has(q, "RST_RCVD")
    /\ IsStr(q[fld])
    /\ SameReports(SentRcvdSearch(q[fld].s), q)
DropRedundantComment(q) == Del(q, {fld \in {"COMMENT", "NOTES"} : RedundantComment(q, fld)})

\* lines 219-220
DropIota(q) ==
    IF Has(q, "IOTA") /\ IsStr(q["IOTA"])
       /\ Strip(MapLower(ReplaceCh(q["IOTA"].s, "-", ""))) = "none"
    THEN Del(q, {"IOTA"}) ELSE q

\* a check that does not look for BAND
MissingMandatoryButBand(q) == {fld \in {"QSO_DATE", "TIME_ON", "CALL", "MODE"} : ~Has(q, fld)}

\* line 149
MissingMandatory(q) == {fld \in SeqToSet(FIELD_MANDATORY) : ~Has(q, fld)}

\* lines 209-221: the last three rules and the return
fixup_tail(q) ==
    Ok(DropIota(DropRedundantComment(DropZero(q))))

\* lines 162-221: the rules in the order of the code, each on the record the
\* one before it left; an exception ends the call
Rule(n, q) ==
    CASE n = 1 -> FixPower(q)
      [] n = 2 -> FixIntegers(q)
      [] n = 3 -> FixNumbers(q)
      [] n = 4 -> FixBand(q)
      [] n = 5 -> FixCall(q)
      [] n = 6 -> FixGrid(q)
      [] n = 7 -> FixLatLon(q)
      [] n = 8 -> fixup_tail(q)
RECURSIVE Rules(_, _)
Rules(r, n) == IF r.err # "" \/ n > 8 THEN r ELSE Rules(Rule(n, r.q), n + 1)

\* fixup_qso(qso, path): [err, q, missing].  err = "QSOError" is the
\* validation failure (q is then the record the exception carries and missing
\* its _MISSING_FIELDS); any other err is an exception fixup_qso does not
\* raise itself.
fixup_qso(qso, path) ==
    LET q0 == IF path # "" THEN Put(qso, "_SOURCE_FILE", Str(path)) ELSE qso
        missing_mandatory == MissingMandatory(q0)
    IN  IF missing_mandatory # {}
        THEN [err |-> "QSOError", q |-> q0, missing |-> missing_mandatory]
        ELSE Rules(fixup_qso_mode(DropFalsy(StripValues(q0))), 1)

(***************************************************************************)
(* The resolver (lines 226-312).  A state of merge_dupe_fields is the pair *)
(* [first, dupe] of the two dicts' scalar entries.                         *)
(***************************************************************************)
SOURCE_OVERRIDES == <<"LOTW", "QRZ", "EQSL", "CLUBLOG", "HRD">>
\* re.match(SOURCE_OVERRIDES[source], field): the pattern matches at the start
OverridePattern(source, fld) ==
    CASE source = "LOTW" ->
            \/ StartsWith(fld, "APP_LOTW_") \/ StartsWith(fld, "LOTW_")
            \/ StartsWith(fld, "AARL_SECT") \/ fld = "DXCC" \/ fld = "COUNTRY"
      [] source = "QRZ" ->
            \/ StartsWith(fld, "APP_QRZCOM_") \/ StartsWith(fld, "QRZCOM_")
            \/ StartsWith(fld, "APP_QRZLOG_")
      [] source = "EQSL" -> StartsWith(fld, "APP_EQSL_") \/ StartsWith(fld, "EQSL")
      [] source = "CLUBLOG" ->
            StartsWith(fld, "APP_CLUBLOG_") \/ StartsWith(fld, "CLUBLOG_")
      [] source = "HRD" ->
            \/ StartsWith(fld, "APP_HRDLOG_") \/ StartsWith(fld, "HRDLOG_")
            \/ StartsWith(fld, "APP_HAMRADIODELUX_") \/ StartsWith(fld, "APP_HAMRADIODELUXE_")
            \/ fld = "HRDCOUNTRYNO"
      [] OTHER -> FALSE

FreeTextFields ==
    {"NAME", "MY_NAME", "ADDRESS", "MY_ADDRESS", "STREET", "MY_STREET", "CITY", "MY_CITY",
     "CNTY", "MY_CNTY", "STATE", "MY_STATE", "COUNTRY", "MY_COUNTRY", "MY_RIG", "COMMENT",
     "EMAIL", "QSLMSG", "WEB", "PFX", "QSL_VIA", "QTH"}
PrecisionFields == {"TIME_ON", "TIME_OFF", "GRIDSQUARE"}
DistanceFields == {"DISTANCE"}
FrequencyFields == {"FREQ", "FREQ_RX"}
QslFields == {"QSL_RCVD", "QSL_SENT", "EQSL_QSL_SENT", "EQSL_QSL_RCVD", "LOTW_QSL_SENT",
              "LOTW_QSL_RCVD", "QSO_RANDOM"}
ReportFields == {"RST_SENT", "RST_RCVD"}
CodeFields == {"DXCC", "A_INDEX", "K_INDEX", "SFI"} \cup SeqToSet(FIELD_ZONES)

MERGE_DISTANCE_ABS == 5
\* MERGE_DISTANCE_PCT = 0.15, as a percentage
MERGE_DISTANCE_PCT == 15
\* the FREQ tolerance 0.01 (line 288), in units of 1/Scale
FREQ_TOLERANCE == 100

\* first[field] = dupe[field]; del dupe[field]
Take(st, fld) == [first |-> Put(st.first, fld, st.dupe[fld]), dupe |-> Del(st.dupe, {fld})]
\* del dupe[field]
Drop(st, fld) == [first |-> st.first, dupe |-> Del(st.dupe, {fld})]

\* Comparisons and arithmetic of numbers; every comparison with nan is false
NumLt(v, w) == v.k = "num" /\ w.k = "num" /\ v.n < w.n
AbsDiff(v, w) == IF v.k = "num" /\ w.k = "num"
                 THEN Num(IF v.n < w.n THEN w.n - v.n ELSE v.n - w.n) ELSE NaN
\* max(v, w): w when w > v, else v
PyMax(v, w) == IF NumLt(v, w) THEN w ELSE v
\* difference / first < MERGE_DISTANCE_PCT, for difference >= 0 and first # 0
RatioBelowPct(difference, v) ==
    /\ difference.k = "num" /\ v.k = "num"
    /\ IF v.n > 0 THEN difference.n * 100 < MERGE_DISTANCE_PCT * v.n ELSE v.n < 0

\* lines 250-266
FreeTextRule(st, fld) ==
    LET fv == st.first[fld].s
        dv == st.dupe[fld].s
        fnslc == comparable_string(fv)
        dnslc == comparable_string(dv)
    IN  IF fnslc = dnslc
        THEN (IF Len(fv) < Len(dv) \/ IsUpper(fv) THEN Take(st, fld) ELSE Drop(st, fld))
        ELSE IF Contains(dnslc, fnslc) THEN Take(st, fld)
        ELSE IF Contains(fnslc, dnslc) THEN Drop(st, fld)
        ELSE st
\* a rule that never takes the more precise value
PrecisionRuleKeepsFirst(st, fld) ==
    IF Truthy(st.first[fld]) /\ Truthy(st.dupe[fld])
       /\ Slice(st.first[fld].s, 0, 4) = Slice(st.dupe[fld].s, 0, 4)
    THEN Drop(st, fld) ELSE st
\* lines 267-280
PrecisionRule(st, fld) ==
    LET fv == st.first[fld]
        dv == st.dupe[fld]
    IN  IF ~Truthy(fv) THEN Take(st, fld)
        ELSE IF ~Truthy(dv) THEN Drop(st, fld)
        ELSE IF Slice(fv.s, 0, 4) = Slice(dv.s, 0, 4)
        THEN (IF Len(dv.s) > Len(fv.s) THEN Take(st, fld) ELSE Drop(st, fld))
        ELSE st
\* a rule that knows the absolute tolerance only
DistanceRuleAbsOnly(st, fld) ==
    IF NumLt(AbsDiff(st.first[fld], st.dupe[fld]), Num(MERGE_DISTANCE_ABS * Scale))
    THEN [first |-> Put(st.first, fld, PyMax(st.first[fld], st.dupe[fld])),
          dupe |-> Del(st.dupe, {fld})]
    ELSE st
\* lines 281-286
DistanceRule(st, fld) ==
    LET difference == AbsDiff(st.first[fld], st.dupe[fld])
    IN  IF NumLt(difference, Num(MERGE_DISTANCE_ABS * Scale)) \/ RatioBelowPct(difference, st.first[fld])
        THEN [first |-> Put(st.first, fld, PyMax(st.first[fld], st.dupe[fld])),
              dupe |-> Del(st.dupe, {fld})]
        ELSE st
\* lines 287-290
FrequencyRule(st, fld) ==
    IF NumLt(AbsDiff(st.first[fld], st.dupe[fld]), Num(FREQ_TOLERANCE))
    THEN [first |-> Put(st.first, fld, PyMax(st.first[fld], st.dupe[fld])),
          dupe |-> Del(st.dupe, {fld})]
    ELSE st
\* lines 291-295
QslRule(st, fld) ==
    IF st.first[fld] \in {Str("N"), Str("R")} /\ st.dupe[fld] \in {Str("Y"), Str("V")}
    THEN Take(st, fld) ELSE Drop(st, fld)
\* re.match(r'\d\d\d', s) and re.match(r'[+-]\d\d', s)
ThreeDigits(s) == IsDigit(Ch(s, 1)) /\ IsDigit(Ch(s, 2)) /\ IsDigit(Ch(s, 3))
SignedReport(s) == Ch(s, 1) \in {"+", "-"} /\ IsDigit(Ch(s, 2)) /\ IsDigit(Ch(s, 3))
\* lines 296-302
ReportRule(st, fld) ==
    IF ThreeDigits(st.first[fld].s) /\ SignedReport(st.dupe[fld].s)
    THEN Take(st, fld) ELSE st
\* lines 303-306
CodeRule(st, fld) ==
    IF Truthy(st.dupe[fld]) /\ ~Truthy(st.first[fld]) THEN Take(st, fld) ELSE st

\* lines 308-312 for one source of the table: the field is deleted from the
\* dupe whenever the pattern matches, and copied first when the source matches
OverrideOne(st, fld, source) ==
    IF OverridePattern(source, fld)
    THEN (IF Contains(MapUpper(st.dupe["_SOURCE_FILE"].s), source)
          THEN Take(st, fld) ELSE Drop(st, fld))
    ELSE st
RECURSIVE OverrideLoop(_, _, _)
OverrideLoop(st, fld, k) ==
    IF k > Len(SOURCE_OVERRIDES) THEN st
    ELSE OverrideLoop(OverrideOne(st, fld, SOURCE_OVERRIDES[k]), fld, k + 1)
\* lines 307-312
OverrideRule(st, fld) == IF Has(st.dupe, fld) THEN OverrideLoop(st, fld, 1) ELSE st

\* lines 250-306: the field-class blocks, one after the other
\* lines 250-306: the field-class blocks, one after the other
FreeTextBlock(st, fld) == IF fld \in FreeTextFields THEN FreeTextRule(st, fld) ELSE st
PrecisionBlock(st, fld) == IF fld \in PrecisionFields THEN PrecisionRule(st, fld) ELSE st
DistanceBlock(st, fld) == IF fld \in DistanceFields THEN DistanceRule(st, fld) ELSE st
FrequencyBlock(st, fld) == IF fld \in FrequencyFields THEN FrequencyRule(st, fld) ELSE st
QslBlock(st, fld) == IF fld \in QslFields THEN QslRule(st, fld) ELSE st
ReportBlock(st, fld) == IF fld \in ReportFields THEN ReportRule(st, fld) ELSE st
CodeBlock(st, fld) == IF fld \in CodeFields THEN CodeRule(st, fld) ELSE st
ClassRules(st, fld) ==
    CodeBlock(ReportBlock(QslBlock(FrequencyBlock(DistanceBlock(PrecisionBlock(
        FreeTextBlock(st, fld), fld), fld), fld), fld), fld), fld)

\* merge_dupe_fields(field, first, dupe), lines 235-312
merge_dupe_fields(fld, st) ==
    IF Ch(fld, 1) = "_" THEN st
    ELSE IF ~Has(st.dupe, fld) THEN st
    ELSE IF ~Has(st.first, fld) THEN Take(st, fld)
    ELSE IF PyEq(st.first[fld], st.dupe[fld]) THEN Drop(st, fld)
    ELSE OverrideRule(ClassRules(st, fld), fld)

\* lines 320-322: the loop over the union of the two key sets.  A call of
\* merge_dupe_fields reads and writes only its own field (and reads the
\* dupe's _SOURCE_FILE), so the set's iteration order does not matter.
RECURSIVE MergeFields(_, _)
MergeFields(flds, st) ==
    IF flds = {} THEN st
    ELSE LET fld == CHOOSE x \in flds : TRUE
         IN  MergeFields(flds \ {fld}, merge_dupe_fields(fld, st))

\* len(qso): the scalar keys, and "_UNMERGED" when present
DictLen(q) == Cardinality(DOMAIN q.f) + (IF DOMAIN q.u = {} THEN 0 ELSE 1)

\* lines 323-331, st being the two dicts after the loop.  The residue filed
\* under first['_UNMERGED'] is the dupe dict itself, so it loses _SOURCE_FILE
\* with it on line 330.
FileResidue(first_, dupe, st) ==
    [first |-> [f |-> Del(st.first, {"_SOURCE_FILE"}),
                u |-> IF DictLen([f |-> st.dupe, u |-> dupe.u]) > 1
                      THEN Put(first_.u, dupe.f["_SOURCE_FILE"].s,
                               Del(st.dupe, {"_SOURCE_FILE"}))
                      ELSE first_.u],
     dupe |-> [f |-> Del(st.dupe, {"_SOURCE_FILE"}), u |-> dupe.u]]
\* merge_two_qsos(first, dupe), lines 315-331: [first, dupe] after the call
merge_two_qsos(first_, dupe) ==
    FileResidue(first_, dupe,
                MergeFields(DOMAIN first_.f \cup DOMAIN dupe.f,
                            [first |-> first_.f, dupe |-> dupe.f]))

(***************************************************************************)
(* adif_io.time_on(qso), the sort and window key of merge_qsos (lines 339,  *)
(* 348, 350, 354, 364): datetime(int(date[0:4]), int(date[4:6]),            *)
(* int(date[6:8]), int(time[0:2]), int(time[2:4]), int(time[4:6]) if        *)
(* len(time) == 6 else 0), here as seconds since 1970-01-01.               *)
(***************************************************************************)
IsLeap(y) == (y % 4 = 0 /\ y % 100 # 0) \/ y % 400 = 0
DaysInMonth(y, m) ==
    IF m = 2 THEN (IF IsLeap(y) THEN 29 ELSE 28)
    ELSE IF m \in {4, 6, 9, 11} THEN 30 ELSE 31
DaysFromCivil(y, m, d) ==
    LET yy == IF m <= 2 THEN y - 1 ELSE y
        era == yy \div 400
        yoe == yy - era * 400
        mp == IF m > 2 THEN m - 3 ELSE m + 9
        doy == (153 * mp + 2) \div 5 + d - 1
        doe == yoe * 365 + yoe \div 4 - yoe \div 100 + doy
    IN  era * 146097 + doe - 719468
IntOk(s) == s # "" /\ AllDigits(s)
time_on(q) ==
    IF ~Has(q, "QSO_DATE") \/ ~Has(q, "TIME_ON") THEN [err |-> "KeyError", t |-> 0]
    ELSE LET date == q["QSO_DATE"].s
             time == q["TIME_ON"].s
             ys == Slice(date, 0, 4)
             ms == Slice(date, 4, 6)
             ds == Slice(date, 6, 8)
             hs == Slice(time, 0, 2)
             ns == Slice(time, 2, 4)
             ss == IF Len(time) = 6 THEN Slice(time, 4, 6) ELSE "0"
             parsed == IntOk(ys) /\ IntOk(ms) /\ IntOk(ds) /\ IntOk(hs) /\ IntOk(ns) /\ IntOk(ss)
             valid == /\ parsed
                      /\ Nat10(ys) >= 1
                      /\ Nat10(ms) \in 1..12
                      /\ Nat10(ds) \in 1..DaysInMonth(Nat10(ys), Nat10(ms))
                      /\ Nat10(hs) < 24 /\ Nat10(ns) < 60 /\ Nat10(ss) < 60
         IN  IF ~valid THEN [err |-> "ValueError", t |-> 0]
             ELSE [err |-> "",
                   t |-> DaysFromCivil(Nat10(ys), Nat10(ms), Nat10(ds)) * 86400
                         + Nat10(hs) * 3600 + Nat10(ns) * 60 + Nat10(ss)]
\* the timestamp of a record whose date and time are well formed
T(q) == time_on(q.f).t

\* the keys of a list, computed once per record as sorted() does
RECURSIVE Times(_)
Times(qs) == IF qs = <<>> THEN <<>> ELSE <<T(Head(qs))>> \o Times(Tail(qs))
\* the indices 1..n ordered by key, ties by index
RECURSIVE OrderBy(_, _)
OrderBy(ts, ks) ==
    IF ks = {} THEN <<>>
    ELSE LET k == CHOOSE x \in ks : \A y \in ks : ts[x] < ts[y] \/ (ts[x] = ts[y] /\ x <= y)
         IN  <<k>> \o OrderBy(ts, ks \ {k})
RECURSIVE Pick(_, _)
Pick(qs, order) == IF order = <<>> THEN <<>> ELSE <<qs[Head(order)]>> \o Pick(qs, Tail(order))
\* sorted(qs, key=time_on): stable
Sorted(qs) == Pick(qs, OrderBy(Times(qs), 1..Len(qs)))

\* line 340: the bucket key; qso.get() of an absent key formats as "None"
GetStr(q, fld) == IF Has(q, fld) THEN q[fld].s ELSE "None"
BucketKey(q) ==
    q["CALL"].s \o "_" \o q["BAND"].s \o "_" \o GetStr(q, "MODE") \o "_" \o GetStr(q, "SUBMODE")

\* the bucket keys of a list
RECURSIVE Keys(_)
Keys(qs) == IF qs = <<>> THEN <<>> ELSE <<BucketKey(Head(qs).f)>> \o Keys(Tail(qs))
\* the indices of ks, in increasing order
RECURSIVE Ascending(_)
Ascending(ks) ==
    IF ks = {} THEN <<>>
    ELSE LET k == CHOOSE x \in ks : \A y \in ks : x <= y
         IN  <<k>> \o Ascending(ks \ {k})
RECURSIVE Groups(_, _, _)
Groups(qs, keys, heads) ==
    IF heads = <<>> THEN <<>>
    ELSE <<Pick(qs, Ascending({k \in 1..Len(qs) : keys[k] = keys[Head(heads)]}))>>
         \o Groups(qs, keys, Tail(heads))
\* lines 338-343: the buckets, in the dict's insertion order
BucketsOf(qs, keys) ==
    Groups(qs, keys,
           Ascending({k \in 1..Len(qs) : \A m \in 1..(k - 1) : keys[m] # keys[k]}))
Bucketize(qs) == BucketsOf(qs, Keys(qs))

\* lines 356-364: the entries that still hold CALL, all buckets, sorted
RECURSIVE Flatten(_)
Flatten(bs) == IF bs = <<>> THEN <<>> ELSE Head(bs) \o Flatten(Tail(bs))
\* a final list that keeps the stripped duplicates
PrunedNothing(bs) == Flatten(bs)
HasCall(q) == Has(q.f, "CALL")
Pruned(bs) == SelectSeq(Flatten(bs), HasCall)

(***************************************************************************)
(* The program: main() reads every record (read_adif_files, lines 509-524) *)
(* and hands the normalised ones to merge_qsos (lines 334-364).            *)
(***************************************************************************)
Start ==
    /\ pc = "read" /\ i = 1 /\ qsos = <<>> /\ malformed = <<>> /\ failure = ""
    /\ sorted_in = <<>> /\ buckets = <<>> /\ b = 0 /\ j = 0 /\ first = 0 /\ cutoff = 0
    /\ absorbed = {} /\ out = <<>>

\* lines 518-523: one iteration of the loop over the raw records, r being what
\* fixup_qso did.  Only QSOError is caught; any other exception leaves
\* read_adif_files and main.
Collect(r) ==
    /\ qsos' = IF r.err = "" THEN Append(qsos, [f |-> r.q, u |-> <<>>]) ELSE qsos
    /\ malformed' = IF r.err = "QSOError"
                    THEN Append(malformed, [f |-> r.q, missing |-> r.missing])
                    ELSE malformed
    /\ i' = IF r.err \in {"", "QSOError"} THEN i + 1 ELSE i
    /\ pc' = IF r.err \in {"", "QSOError"} THEN "read" ELSE "aborted"
    /\ failure' = IF r.err \in {"", "QSOError"} THEN "" ELSE r.err
ReadRecord ==
    /\ pc = "read" /\ i <= Len(raw)
    /\ Collect(fixup_qso(raw[i].q, raw[i].path))
    /\ UNCHANGED <<raw, window, sorted_in, buckets, b, j, first, cutoff, absorbed, out>>

\* the exception lines 339-340 raise for a record, "" when none
KeyingError(q) ==
    IF time_on(q).err # "" THEN time_on(q).err
    ELSE IF ~Has(q, "CALL") \/ ~Has(q, "BAND") THEN "KeyError"
    ELSE ""
\* a cutoff that takes the boundary second in
InWindowInclusive(t, cut) == t <= cut
\* line 350
InWindow(t, cut) == t < cut

\* line 348 / 354
Cutoff(q, w) == T(q) + w

\* lines 338-348: sort, bucketize, and enter the first bucket
MergeStart ==
    /\ pc = "read" /\ i > Len(raw)
    /\ LET bad == {k \in 1..Len(qsos) : KeyingError(qsos[k].f) # ""}
           timeless == {k \in 1..Len(qsos) : time_on(qsos[k].f).err # ""}
       IN  IF bad # {}
           THEN /\ pc' = "aborted"
                /\ failure' = IF timeless = {} THEN "KeyError"
                               ELSE time_on(qsos[CHOOSE k \in timeless :
                                                   \A m \in timeless : k <= m].f).err
                /\ UNCHANGED <<sorted_in, buckets, b, j, first, cutoff>>
           ELSE LET srt == Sorted(qsos)
                    bkt == Bucketize(srt)
                IN  /\ pc' = "walk"
                    /\ failure' = ""
                    /\ sorted_in' = srt
                    /\ buckets' = bkt
                    /\ b' = 1 /\ first' = 1 /\ j' = 2
                    /\ cutoff' = IF qsos = <<>> THEN 0 ELSE Cutoff(bkt[1][1], window)
    /\ UNCHANGED <<raw, window, i, qsos, malformed, absorbed, out>>

\* line 351: the two entries after merge_two_qsos
Merged(m) ==
    /\ buckets' = [buckets EXCEPT ![b] = [@ EXCEPT ![first] = m.first, ![j] = m.dupe]]
    /\ absorbed' = absorbed \cup {[b |-> b, k |-> j, into |-> first]}
    /\ UNCHANGED <<first, cutoff>>
\* lines 349-354: one iteration of the loop over entries[1:]
Walk ==
    /\ pc = "walk" /\ b <= Len(buckets) /\ j <= Len(buckets[b])
    /\ IF InWindow(T(buckets[b][j]), cutoff)
       THEN Merged(merge_two_qsos(buckets[b][first], buckets[b][j]))
       ELSE /\ first' = j
            /\ cutoff' = Cutoff(buckets[b][j], window)
            /\ UNCHANGED <<buckets, absorbed>>
    /\ j' = j + 1
    /\ UNCHANGED <<raw, window, pc, i, qsos, malformed, failure, sorted_in, b, out>>

\* lines 346-348: the next bucket
NextBucket ==
    /\ pc = "walk" /\ b <= Len(buckets) /\ j > Len(buckets[b])
    /\ b' = b + 1 /\ first' = 1 /\ j' = 2
    /\ cutoff' = IF b + 1 <= Len(buckets) THEN Cutoff(buckets[b + 1][1], window) ELSE cutoff
    /\ UNCHANGED <<raw, window, pc, i, qsos, malformed, failure, sorted_in, buckets,
                   absorbed, out>>

\* lines 356-364
Finish ==
    /\ pc = "walk" /\ b > Len(buckets)
    /\ out' = Sorted(Pruned(buckets))
    /\ pc' = "done"
    /\ UNCHANGED <<raw, window, i, qsos, malformed, failure, sorted_in, buckets,
                   b, j, first, cutoff, absorbed>>

Next == ReadRecord \/ MergeStart \/ Walk \/ NextBucket \/ Finish

(***************************************************************************)
(* Inputs.  A raw record maps field names to the strings the parser read.  *)
(***************************************************************************)
MERGE_WINDOW == 115
MaxBatch == 3
MaxReadBatch == 2
MaxWindow == 2

Batches(pool, n) == UNION {[1..m -> pool] : m \in 1..n}
Raw(path, q) == [path |-> path, q |-> q]
Base(call, time) ==
    ("QSO_DATE" :> Str("20200101") @@ "TIME_ON" :> Str(time) @@ "CALL" :> Str(call)
     @@ "BAND" :> Str("20m") @@ "MODE" :> Str("FT8"))
With(q, fld, s) == Put(q, fld, Str(s))

\* records that exercise the normaliser, all from one file
\* records that exercise the normaliser, all from one file
NormPool ==
    LET q == Base("k1abc", "1200")
    IN  {Raw("wsjtx.adi", x) : x \in
          {q, Del(q, {"BAND"}), Del(q, {"BAND", "MODE"}), Del(q, {"CALL", "TIME_ON"}),
           With(q, "MODE", ""), With(q, "CALL", " "), With(q, "MODE", "USB"),
           With(q, "TX_PWR", "5W"), With(q, "TX_PWR", "50000"),
           With(q, "DXCC", "0"), With(q, "DXCC", "x"), With(q, "FREQ", "14.0748"),
           With(q, "GRIDSQUARE", "fn20AB"), With(q, "NAME", " Bob ")}}

\* records that differ in key and start time only
WindowPool ==
    {Raw("wsjtx.adi", Base("K1ABC", time)) : time \in {"1200", "120001", "120002", "120003"}}
    \cup {Raw("wsjtx.adi", Base("W2XYZ", "1200"))}

\* same-key, same-time records from two files that differ in a field no rule
\* resolves
ResiduePool ==
    {Raw(path, With(Base("K1ABC", "1200"), "OPERATOR", v)) :
        path \in {"wsjtx.adi", "lotw.adi"}, v \in {"K1ABC", "W1AW", "N0CALL"}}

\* pairs of same-key, same-time records that differ in one field
PairValues ==
    <<[fld |-> "NAME", vals |-> {"Bob", "BOB", "Bob Smith", "B ob", "Al"}],
      [fld |-> "COUNTRY", vals |-> {"United States", "United States of America", "Canada"}],
      [fld |-> "GRIDSQUARE", vals |-> {"FN20", "FN20ab", "FN20cd", "FN31"}],
      [fld |-> "TIME_OFF", vals |-> {"1201", "120130", "1202"}],
      [fld |-> "DISTANCE", vals |-> {"20", "24", "25", "100", "103", "115", "116", "200", "nan"}],
      [fld |-> "FREQ", vals |-> {"14.074", "14.0748", "14.080"}],
      [fld |-> "LOTW_QSL_RCVD", vals |-> {"N", "Y", "R", "V"}],
      [fld |-> "QSL_RCVD", vals |-> {"N", "Y", "I"}],
      [fld |-> "RST_SENT", vals |-> {"599", "+05", "-12", "59"}],
      [fld |-> "DXCC", vals |-> {"0", "291", "1"}],
      [fld |-> "CQZ", vals |-> {"5", "4"}],
      [fld |-> "APP_LOTW_MODEGROUP", vals |-> {"DATA", "PHONE"}],
      [fld |-> "QRZCOM_QSO_UPLOAD_STATUS", vals |-> {"Y", "N"}],
      [fld |-> "OPERATOR", vals |-> {"K1ABC", "W1AW"}],
      [fld |-> "TX_PWR", vals |-> {"5W", "100"}]>>
PairPool(k) ==
    {Raw(path, x) : path \in {"wsjtx.adi", "lotw.adi", "qrz.adi"},
                    x \in {Base("K1ABC", "1200")}
                          \cup {With(Base("K1ABC", "1200"), PairValues[k].fld, v) :
                                   v \in PairValues[k].vals}}
PairBatches == UNION {[1..2 -> PairPool(k)] : k \in 1..Len(PairValues)}

InitRead == Start /\ window = MERGE_WINDOW /\ raw \in Batches(NormPool, MaxReadBatch)
InitWindow == Start /\ window \in 0..MaxWindow /\ raw \in Batches(WindowPool, MaxBatch)
InitResidue == Start /\ window = MERGE_WINDOW /\ raw \in Batches(ResiduePool, MaxBatch)
InitPair == Start /\ window = MERGE_WINDOW /\ raw \in PairBatches

\* same-key, same-time records that differ in the grid locator
InitGrid ==
    /\ Start /\ window = MERGE_WINDOW
    /\ raw \in Batches({Raw("wsjtx.adi", Base("K1ABC", "1200"))}
                       \cup {Raw("wsjtx.adi", With(Base("K1ABC", "1200"), "GRIDSQUARE", g)) :
                                g \in {"FN20", "fn20AB", "FN20cd", "FN20ab12", "FN31"}},
                       MaxBatch)

\* the normaliser and the reader
SpecRead == InitRead /\ [][Next]_vars
\* the window and the order of the output
SpecWindow == InitWindow /\ [][Next]_vars
\* the residue of several duplicates
SpecResidue == InitResidue /\ [][Next]_vars
\* the resolver on one field of two records
SpecPair == InitPair /\ [][Next]_vars
\* the precision rule over several duplicates
SpecGrid == InitGrid /\ [][Next]_vars

(***************************************************************************)
(* Properties.  sorted_in holds the records as merge_qsos received them,   *)
(* in sorted order; the buckets it starts from are Bucketize(sorted_in).   *)
(***************************************************************************)
Done == pc = "done"
NonInternal(q) == {fld \in DOMAIN q : Ch(fld, 1) # "_"}
SourceOf(q) == q.f["_SOURCE_FILE"].s

\* a batch of two records with one merge key, both handed to merge_qsos
TwoSameKey ==
    /\ Len(raw) = 2 /\ Len(sorted_in) = 2
    /\ BucketKey(sorted_in[1].f) = BucketKey(sorted_in[2].f)
\* seconds from the earlier start time to the later
Gap == T(sorted_in[2]) - T(sorted_in[1])

\* C1: for two records with the same merge key and any window w, a later
\* record that starts exactly w seconds (or more) after the earlier one is not
\* merged, and both are in the output as they came in; one that starts less
\* than w seconds after is merged into the earlier one, and the output holds
\* one record.
C1_WindowBoundary ==
    (Done /\ TwoSameKey) =>
        /\ Gap >= window => (out = sorted_in /\ absorbed = {})
        /\ Gap < window => (Len(out) = 1 /\ absorbed = {[b |-> 1, k |-> 2, into |-> 1]})
\* two same-key records exactly one non-zero window apart, both in the output
C1_AtBoundary ==
    Done /\ TwoSameKey /\ window > 0 /\ Gap = window /\ Len(out) = 2

\* a batch of two accepted records of which the second was merged into the
\* first: sorted_in[1] is the primary and sorted_in[2] the duplicate as
\* merge_two_qsos received them, out[1] the primary afterwards
PairMerged ==
    /\ Done /\ Len(sorted_in) = 2 /\ Len(out) = 1
    /\ absorbed = {[b |-> 1, k |-> 2, into |-> 1]}
\* the fields both records hold with values that differ
Differing(first_, dupe) ==
    {fld \in NonInternal(first_) \cap NonInternal(dupe) : ~PyEq(first_[fld], dupe[fld])}
\* the file name contains a source whose pattern matches the field name
OverrideApplies(fld, file) ==
    \E k \in 1..Len(SOURCE_OVERRIDES) :
        /\ OverridePattern(SOURCE_OVERRIDES[k], fld)
        /\ Contains(MapUpper(file), SOURCE_OVERRIDES[k])

\* C2: whenever primary and duplicate hold a field with differing values, the
\* field name matches the override pattern of a source and the duplicate's
\* _SOURCE_FILE contains that source's name, the primary's value after the
\* merge is the duplicate's value, whatever a field-class rule would do.
C2_OverrideAlwaysWins ==
    PairMerged =>
        \A fld \in Differing(sorted_in[1].f, sorted_in[2].f) :
            OverrideApplies(fld, SourceOf(sorted_in[2])) =>
                /\ Has(out[1].f, fld)
                /\ out[1].f[fld] = sorted_in[2].f[fld]

\* the entries of the buckets, by position
Entries == UNION {{[b |-> x, k |-> y] : y \in 1..Len(buckets[x])} : x \in 1..Len(buckets)}
\* the record at a position as merge_qsos received it
Received(e) == Bucketize(sorted_in)[e.b][e.k]
\* the primary holds, under the file name, the value of field fld
Filed(primary, file, fld, v) ==
    /\ file \in DOMAIN primary.u
    /\ fld \in DOMAIN primary.u[file]
    /\ primary.u[file][fld] = v

\* C3: after merge_qsos has processed the buckets, for every duplicate that
\* was merged into a primary and every non-internal field the resolver left
\* on that duplicate, the primary's _UNMERGED residue holds that field's value
\* under the duplicate's source file, for any number of duplicates merged into
\* one primary and whatever their source files.
C3_ResidueNeverDropped ==
    Done =>
        \A a \in absorbed :
            \A fld \in NonInternal(buckets[a.b][a.k].f) :
                Filed(buckets[a.b][a.into], SourceOf(Received([b |-> a.b, k |-> a.k])),
                      fld, buckets[a.b][a.k].f[fld])

\* the mandatory field names a raw record does not hold
Absent(k) == {"QSO_DATE", "TIME_ON", "CALL", "BAND", "MODE"} \ DOMAIN raw[k].q
\* the records read so far that lack a mandatory field
Lacking == {k \in 1..(i - 1) : Absent(k) # {}}
\* the n-th index of a set of indices
Nth(S, n) == CHOOSE k \in S : Cardinality({m \in S : m < k}) = n - 1
\* the raw record as fixup_qso received it, marked with its file
Marked(k) == Put(raw[k].q, "_SOURCE_FILE", Str(raw[k].path))

\* C4: every raw record that lacks a mandatory field is rejected with the
\* original record and exactly the set of absent mandatory names; the reader
\* files it as malformed and not among the records handed to merge_qsos, so it
\* is not in the output, and it goes on to the remaining records of the batch.
C4_MissingFieldsRejected ==
    /\ Len(malformed) = Cardinality(Lacking)
    /\ \A n \in 1..Len(malformed) :
          /\ malformed[n].f = Marked(Nth(Lacking, n))
          /\ malformed[n].missing = Absent(Nth(Lacking, n))
    /\ Len(qsos) = (i - 1) - Cardinality(Lacking)
    /\ (pc = "aborted" /\ i <= Len(raw)) => Absent(i) = {}
    /\ Done => Len(out) <= Len(qsos)
\* a record without BAND alone was filed as malformed with ["BAND"], and the
\* record after it was read and merged
C4_BandMissing ==
    /\ Done /\ Len(raw) = 2 /\ Absent(1) = {"BAND"} /\ Absent(2) = {}
    /\ Len(malformed) = 1 /\ malformed[1].missing = {"BAND"}
    /\ Len(out) = 1

\* C5: no record aborts the batch: the normalisation of each record either
\* returns a record or raises the validation failure the reader collects, so
\* once reading is over every record of the batch is in the normalised list or
\* in the malformed list.
C5_NoRecordAbortsTheBatch ==
    /\ ~(pc = "aborted" /\ i <= Len(raw))
    /\ (pc # "read" \/ i > Len(raw)) => Len(qsos) + Len(malformed) = Len(raw)

\* C6: fixup_qso is idempotent: applied again, with the same source file, to a
\* record it returned, it succeeds and returns an equal record.
C6_FixupIdempotent ==
    \A k \in 1..Len(qsos) :
        /\ fixup_qso(qsos[k].f, SourceOf(qsos[k])).err = ""
        /\ fixup_qso(qsos[k].f, SourceOf(qsos[k])).q = qsos[k].f

\* a batch of two raw records with the same fields and the same values
IdenticalCopies == Len(raw) = 2 /\ raw[1].q = raw[2].q

\* C7: merging a record with an identical copy of itself yields a primary
\* whose non-internal fields are exactly those of the original record and
\* which carries no residue; the copy is consumed and is not in the output.
C7_IdenticalCopyNoResidue ==
    (Done /\ IdenticalCopies /\ Len(sorted_in) = 2) =>
        /\ Len(out) = 1
        /\ out[1].u = <<>>
        /\ out[1].f = Del(sorted_in[1].f, {"_SOURCE_FILE"})
        /\ NonInternal(buckets[1][2].f) = {}

\* a mandatory field of a raw record is absent, empty or whitespace only
Blank(k) ==
    {fld \in {"QSO_DATE", "TIME_ON", "CALL", "BAND", "MODE"} :
        ~Has(raw[k].q, fld) \/ Strip(raw[k].q[fld].s) = ""}

\* C8: every record fixup_qso returns holds the five mandatory fields with a
\* non-empty value, and a raw record in which a mandatory field is absent,
\* empty or whitespace only is rejected with the validation failure and never
\* returned.
C8_MandatoryPresent ==
    /\ \A k \in 1..Len(qsos) :
          \A fld \in {"QSO_DATE", "TIME_ON", "CALL", "BAND", "MODE"} :
              Has(qsos[k].f, fld) /\ Truthy(qsos[k].f[fld])
    /\ Len(malformed) = Cardinality({k \in 1..(i - 1) : Blank(k) # {}})
    /\ (pc = "aborted" /\ i <= Len(raw)) => Blank(i) = {}

\* the entries no merge consumed
Primaries == {e \in Entries : \A a \in absorbed : ~(a.b = e.b /\ a.k = e.k)}
Occurrences(s, v) == Cardinality({k \in 1..Len(s) : s[k] = v})

\* C9: the output of merge_qsos is in non-decreasing order of the start
\* timestamps its records hold, across all buckets, and consists exactly of
\* the primaries: no record that was merged into another is in it, every
\* record that was never merged is in it, and each still has its CALL.
C9_SortedPrimaries ==
    Done =>
        /\ \A k \in 1..(Len(out) - 1) : T(out[k]) <= T(out[k + 1])
        /\ Len(out) = Cardinality(Primaries)
        /\ \A e \in Primaries :
              Occurrences(out, buckets[e.b][e.k]) =
                  Cardinality({p \in Primaries : buckets[p.b][p.k] = buckets[e.b][e.k]})
        /\ \A a \in absorbed : Occurrences(out, buckets[a.b][a.k]) = 0
        /\ \A k \in 1..Len(out) : Has(out[k].f, "CALL")
\* an output of several buckets in which a duplicate was consumed and the
\* final sort moved a record
C9_MergedAndResorted ==
    /\ Done /\ absorbed # {} /\ Len(out) >= 2 /\ Len(buckets) >= 2
    /\ out # Pruned(buckets)

\* the fields of none of the resolver's classes
Unclassified(q) ==
    NonInternal(q) \ (FreeTextFields \cup PrecisionFields \cup DistanceFields
                      \cup FrequencyFields \cup QslFields \cup ReportFields \cup CodeFields)

\* C10: for a field of none of the resolver's classes that primary and
\* duplicate hold with differing values, when no override source of the
\* duplicate's file matches the field name, the primary's value is unchanged
\* after the merge and the duplicate's value is in the primary's residue under
\* the duplicate's source file.
C10_UnresolvedKeptAsResidue ==
    PairMerged =>
        \A fld \in Differing(sorted_in[1].f, sorted_in[2].f) \cap Unclassified(sorted_in[1].f) :
            ~OverrideApplies(fld, SourceOf(sorted_in[2])) =>
                /\ Has(out[1].f, fld)
                /\ out[1].f[fld] = sorted_in[1].f[fld]
                /\ Filed(out[1], SourceOf(sorted_in[2]), fld, sorted_in[2].f[fld])

\* the entries of a primary's group: the primary and what was merged into it
GroupOf(e) == {e} \cup {[b |-> a.b, k |-> a.k] : a \in {x \in absorbed : x.b = e.b /\ x.into = e.k}}
\* the values of a field in a group, as merge_qsos received them
ReceivedValues(e, fld) ==
    {Received(m).f[fld] : m \in {x \in GroupOf(e) : Has(Received(x).f, fld)}}
\* the group holds at least two records and every GRIDSQUARE in it has the
\* same leading four characters
SamePrefixGroup(e) ==
    /\ Cardinality(GroupOf(e)) >= 2
    /\ ReceivedValues(e, "GRIDSQUARE") # {}
    /\ \A v, w \in ReceivedValues(e, "GRIDSQUARE") : Slice(v.s, 0, 4) = Slice(w.s, 0, 4)

\* C11: when the same-key records merged into one primary carry GRIDSQUARE
\* values that all share their leading four characters, the merged record's
\* GRIDSQUARE is one of them of maximal length, whichever record is earlier
\* and however many duplicates were merged; the other values are consumed
\* and leave no GRIDSQUARE in the residue.
C11_GridPrecision ==
    Done =>
        \A e \in Primaries :
            SamePrefixGroup(e) =>
                /\ Has(buckets[e.b][e.k].f, "GRIDSQUARE")
                /\ buckets[e.b][e.k].f["GRIDSQUARE"] \in ReceivedValues(e, "GRIDSQUARE")
                /\ \A v \in ReceivedValues(e, "GRIDSQUARE") :
                      Len(v.s) <= Len(buckets[e.b][e.k].f["GRIDSQUARE"].s)
                /\ \A m \in GroupOf(e) \ {e} : ~Has(buckets[m.b][m.k].f, "GRIDSQUARE")
                /\ \A file \in DOMAIN buckets[e.b][e.k].u :
                      ~Has(buckets[e.b][e.k].u[file], "GRIDSQUARE")
\* three records merged into one whose locator came from the last of them:
\* the primary had four characters, the duplicates six and eight
C11_LongestOfThree ==
    /\ Done /\ Len(sorted_in) = 3 /\ Cardinality(absorbed) = 2 /\ Len(out) = 1
    /\ \A k \in 1..3 : Has(sorted_in[k].f, "GRIDSQUARE")
    /\ Len(sorted_in[1].f["GRIDSQUARE"].s) = 4
    /\ Len(sorted_in[2].f["GRIDSQUARE"].s) = 6
    /\ out[1].f["GRIDSQUARE"] = sorted_in[3].f["GRIDSQUARE"]
    /\ Len(out[1].f["GRIDSQUARE"].s) = 8
    /\ out[1].u = <<>>

\* primary and duplicate hold DISTANCE as two different positive numbers
TwoDistances ==
    /\ PairMerged
    /\ Has(sorted_in[1].f, "DISTANCE") /\ Has(sorted_in[2].f, "DISTANCE")
    /\ sorted_in[1].f["DISTANCE"].k = "num" /\ sorted_in[2].f["DISTANCE"].k = "num"
    /\ sorted_in[1].f["DISTANCE"].n > 0 /\ sorted_in[2].f["DISTANCE"].n > 0
    /\ sorted_in[1].f["DISTANCE"].n # sorted_in[2].f["DISTANCE"].n
\* |p - d| < MERGE_DISTANCE_ABS or |p - d| / p < MERGE_DISTANCE_PCT percent,
\* in units of 1/Scale
Close(p, d) ==
    LET diff == IF p < d THEN d - p ELSE p - d
    IN  diff < MERGE_DISTANCE_ABS * Scale \/ diff * 100 < MERGE_DISTANCE_PCT * p

\* C12: for different positive DISTANCE values p of the primary and d of the
\* duplicate, if |p - d| < 5 or |p - d| / p < 15% the primary's DISTANCE
\* becomes max(p, d) and the duplicate's is consumed without residue;
\* otherwise the primary keeps p and d is left as residue.
C12_DistanceTolerance ==
    TwoDistances =>
        LET p == sorted_in[1].f["DISTANCE"].n
            d == sorted_in[2].f["DISTANCE"].n
        IN  IF Close(p, d)
            THEN /\ out[1].f["DISTANCE"] = Num(IF p < d THEN d ELSE p)
                 /\ ~Has(buckets[1][2].f, "DISTANCE")
                 /\ out[1].u = <<>>
            ELSE /\ out[1].f["DISTANCE"] = Num(p)
                 /\ Filed(out[1], SourceOf(sorted_in[2]), "DISTANCE", Num(d))
\* a primary with 100 and a duplicate with 103 merged to 103 without residue
C12_HundredAndThree ==
    /\ TwoDistances
    /\ sorted_in[1].f["DISTANCE"] = Num(100 * Scale)
    /\ sorted_in[2].f["DISTANCE"] = Num(103 * Scale)
    /\ out[1].f["DISTANCE"] = Num(103 * Scale)
    /\ out[1].u = <<>>

\* the walk is about to compare the next record of the bucket with the cutoff
Comparing == pc = "walk" /\ b <= Len(buckets) /\ j <= Len(buckets[b])

\* C13: at every moment the walk compares a record against the cutoff, the
\* cutoff is the start timestamp of the current primary, read from its
\* QSO_DATE and TIME_ON as they stand at that moment (after any earlier
\* merges into it), plus the window.
C13_CutoffFollowsPrimary ==
    Comparing => cutoff = T(buckets[b][first]) + window

====
